---- MODULE Spec2Model ----
(***************************************************************************)
(* A model of pipedrive/base.py: the API gateway (PipedriveAPI), the       *)
(* resource client base class (BaseResource), the paginated collection     *)
(* (CollectionResponse) and the record projection (dict_to_model).         *)
(***************************************************************************)
EXTENDS Integers, Sequences, FiniteSets, TLC

(***************************************************************************)
(* Bounds of the model.                                                    *)
(***************************************************************************)
\* The integers a document may carry are 1..MaxVal.
MaxVal == 2
\* The longest `data` list of a response document.
MaxItems == 2
\* The most resource clients constructed in one run.
MaxInstances == 5
\* The most calls of the transport in one run.
MaxCalls == 2

(***************************************************************************)
(* Python values.  Every value is a record tagged by its type, so that     *)
(* None, numbers, booleans, strings, dicts and lists can be compared.      *)
(***************************************************************************)
None == [t |-> "None"]
PyInt(n) == [t |-> "int", i |-> n]
PyBool(b) == [t |-> "bool", bo |-> b]
PyStr(s) == [t |-> "str", s |-> s]
PyDict(m) == [t |-> "dict", d |-> m]
PyList(l) == [t |-> "list", l |-> l]
EmptyDict == PyDict([k \in {} |-> None])

\* Python truth value of an object, as `or` and `if` test it.
Truthy(x) ==
    CASE x.t = "None" -> FALSE
      [] x.t = "int" -> x.i # 0
      [] x.t = "bool" -> x.bo
      [] x.t = "str" -> x.s # ""
      [] x.t = "dict" -> DOMAIN x.d # {}
      [] x.t = "list" -> Len(x.l) > 0
      [] OTHER -> TRUE

\* x or y
Or(x, y) == IF Truthy(x) THEN x ELSE y

\* m.get(key, default) on the mapping m of a dict
Get(m, key, default) == IF key \in DOMAIN m THEN m[key] ELSE default

(***************************************************************************)
(* Field schemas (schematics model classes).  A model class has `fields`,  *)
(* a mapping from field name to a field type with its serialized_name      *)
(* (None when the field declares none).                                    *)
(***************************************************************************)
Keys == {"id", "name", "secret"}
SerializedNames == {None, PyStr("")} \cup {PyStr(k) : k \in Keys}
FieldMaps ==
    UNION {[F -> [serialized_name : SerializedNames]] : F \in SUBSET Keys}
ModelClasses == [fields : FieldMaps]

\* model_class(raw_data=safe_data): the record the schema builds.
Model(model_class, raw_data) ==
    [t |-> "Model", cls |-> model_class, raw_data |-> raw_data]

\* A projection that keeps the field name beside the serialized name.
model_keys_with_field_names(model_class) ==
    LET fields == model_class.fields
    IN DOMAIN fields \cup
       {Or(fields[field_name].serialized_name, PyStr(field_name)).s :
            field_name \in DOMAIN fields}

\* The keys the projection keeps: per field, serialized_name or field_name.
model_keys(model_class) ==
    LET fields == model_class.fields
    IN {Or(fields[field_name].serialized_name, PyStr(field_name)).s :
            field_name \in DOMAIN fields}

\* A projection that tests `if not data` where the code tests `is None`.
dict_to_model_falsy(data, model_class) ==
    IF ~Truthy(data) THEN None
    ELSE LET safe_keys == DOMAIN data.d \cap model_keys(model_class)
             safe_data == [key \in safe_keys |-> data.d[key]]
         IN Model(model_class, safe_data)

\* dict_to_model(data, model_class): None for a None document, else the
\* record built from the keys of a copy of the document that are
\* model_keys; the caller's document is left as it was.
dict_to_model(data, model_class) ==
    IF data = None THEN None
    ELSE LET safe_keys == DOMAIN data.d \cap model_keys(model_class)
             safe_data == [key \in safe_keys |-> data.d[key]]
         IN Model(model_class, safe_data)

(***************************************************************************)
(* Raw documents.                                                          *)
(***************************************************************************)
Values == {PyInt(n) : n \in 1..MaxVal}
RawDocuments ==
    {None} \cup {PyDict(m) : m \in UNION {[K -> Values] : K \in SUBSET Keys}}

\* The documents a `data` list may hold.
ItemDocuments ==
    {None, EmptyDict, PyDict([k \in Keys |-> PyInt(1)])}

\* The schemas the collections are built with: Deal declares `id` and
\* `name`; Label declares one field `name` serialized as `id`.
DealModel ==
    [fields |-> [k \in {"id", "name"} |-> [serialized_name |-> None]]]
LabelModel ==
    [fields |-> [k \in {"name"} |-> [serialized_name |-> PyStr("id")]]]
ExampleModels == {DealModel, LabelModel}

(***************************************************************************)
(* Decoded response documents.  Each optional key is absent, null, or      *)
(* present with a well-formed value.                                       *)
(***************************************************************************)
Absent == [t |-> "absent"]

\* The mapping whose keys are those of the choice c that are not Absent.
FromChoices(c) == [k \in {k \in DOMAIN c : c[k] # Absent} |-> c[k]]

SeqsUpTo(S, n) == UNION {[1..k -> S] : k \in 0..n}

CursorChoices == {Absent, None, PyInt(0), PyInt(MaxVal)}
PaginationBlocks ==
    {PyDict(FromChoices(c)) :
        c \in [start : CursorChoices, limit : CursorChoices,
               next_start : {Absent, PyInt(MaxVal)},
               more_items_in_collection : {Absent, PyBool(TRUE)}]}
AdditionalDataChoices ==
    {Absent, None} \cup
    {PyDict(FromChoices(c)) :
        c \in [pagination : {Absent, None} \cup PaginationBlocks]}
DataChoices ==
    {Absent, None} \cup {PyList(l) : l \in SeqsUpTo(ItemDocuments, MaxItems)}
SuccessChoices == {Absent, None, PyBool(TRUE), PyBool(FALSE)}
ResponseDocuments ==
    {PyDict(FromChoices(c)) :
        c \in [data : DataChoices, success : SuccessChoices,
               additional_data : AdditionalDataChoices]}

\* A requests.Response: its identity, its ok status and what json() decodes.
Response(id, ok, json) ==
    [t |-> "Response", id |-> id, ok |-> ok, json |-> json]

Raised(exc) == [t |-> "raise", exc |-> exc]

\* Cursor defaults with 0 where the code gives `limit` 100.
PaginationDefaultZeroLimit(key) ==
    CASE key = "start" -> PyInt(0)
      [] key = "limit" -> PyInt(0)
      [] key = "next_start" -> PyInt(0)
      [] key = "more_items_in_collection" -> PyBool(FALSE)

\* The default of pagination.get(key, <default>) for each cursor field.
PaginationDefault(key) ==
    CASE key = "start" -> PyInt(0)
      [] key = "limit" -> PyInt(100)
      [] key = "next_start" -> PyInt(0)
      [] key = "more_items_in_collection" -> PyBool(FALSE)

\* The instance after super().__init__(): no cursor field holds a value.
NewCollection ==
    [t |-> "CollectionResponse", items |-> <<>>, success |-> None,
     start |-> None, limit |-> None, next_start |-> None,
     more_items_in_collection |-> None]

\* CollectionResponse.__init__(response, model_class): the instance built,
\* or the exception raised.
CollectionResponse(response, model_class) ==
    LET doc == IF response.t = "Response" THEN response.json ELSE response
        items == Or(Get(doc.d, "data", PyList(<<>>)), PyList(<<>>))
        self1 == [NewCollection EXCEPT
                    !.items = [i \in 1..Len(items.l) |->
                                  dict_to_model(items.l[i], model_class)],
                    !.success = Get(doc.d, "success", PyBool(FALSE))]
    IN IF "additional_data" \notin DOMAIN doc.d THEN self1
       ELSE IF doc.d["additional_data"].t # "dict" THEN Raised("TypeError")
       ELSE IF "pagination" \notin DOMAIN doc.d["additional_data"].d THEN self1
       ELSE LET pagination == doc.d["additional_data"].d["pagination"]
            IN IF pagination.t # "dict" THEN Raised("AttributeError")
               ELSE [self1 EXCEPT
                       !.start =
                           Get(pagination.d, "start", PaginationDefault("start")),
                       !.limit =
                           Get(pagination.d, "limit", PaginationDefault("limit")),
                       !.next_start =
                           Get(pagination.d, "next_start",
                               PaginationDefault("next_start")),
                       !.more_items_in_collection =
                           Get(pagination.d, "more_items_in_collection",
                               PaginationDefault("more_items_in_collection"))]

(***************************************************************************)
(* Resource classes: the subclasses of BaseResource an application         *)
(* declares, each with its accessor name and its request paths.  A path    *)
(* template is the sequence of its literal parts and its {placeholders}.   *)
(***************************************************************************)
BASE_URL == "https://api.pipedrive.com/v1"

Deals ==
    [name |-> "Deals", API_ACESSOR_NAME |-> "deals",
     LIST_REQ_PATH |-> "/deals",
     DETAIL_REQ_PATH |-> <<"/deals/", "{id}">>,
     FIND_REQ_PATH |-> "/deals/find",
     RELATED_ENTITIES_PATH |-> <<"/deals/", "{id}", "/", "{entity}">>]
Persons ==
    [name |-> "Persons", API_ACESSOR_NAME |-> "persons",
     LIST_REQ_PATH |-> "/persons",
     DETAIL_REQ_PATH |-> <<"/persons/", "{id}">>,
     FIND_REQ_PATH |-> "/persons/find",
     RELATED_ENTITIES_PATH |-> <<"/persons/", "{id}", "/", "{entity}">>]
\* A second resource type declared under the accessor name of Deals.
ArchivedDeals ==
    [name |-> "ArchivedDeals", API_ACESSOR_NAME |-> "deals",
     LIST_REQ_PATH |-> "/deals/archived",
     DETAIL_REQ_PATH |-> <<"/deals/", "{id}", "/archived">>,
     FIND_REQ_PATH |-> "/deals/archived/find",
     RELATED_ENTITIES_PATH |-> <<"/deals/", "{id}", "/archived/", "{entity}">>]
ResourceClasses == {Deals, Persons, ArchivedDeals}

Gateways == {"g1", "g2"}
Tokens == {None, PyStr(""), PyStr("tok")}
\* The attribute names a caller reads from a Gateway.
AttributeNames == {"deals", "persons", "leads", "api_token"}

VARIABLES
    attrs,              \* attrs[g]: the instance attributes of Gateway g
    resource_registry,  \* PipedriveAPI.resource_registry
    instances,          \* the resource clients constructed so far, in order
    access,             \* the attribute access the last step made, if any
    transport_calls,    \* how many times requests.request was called
    op,                 \* the resource operation the last step made, if any
    call                \* a call of dict_to_model or CollectionResponse

vars ==
    <<attrs, resource_registry, instances, access, transport_calls, op, call>>

Returned(value) == [t |-> "return", value |-> value]

NoAccess == [t |-> "none"]
NoOp == [t |-> "none"]
NoCall == [fn |-> "none", result |-> [t |-> "none"]]
NoRegistry == [k \in {} |-> None]

\* The mapping m with m[key] = value.
SetItem(m, key, value) ==
    [k \in DOMAIN m \cup {key} |-> IF k = key THEN value ELSE m[k]]

\* PipedriveAPI.__init__(api_token)
PipedriveAPI_init(api_token) == [k \in {"api_token"} |-> api_token]

\* A resource client that does not store itself onto its Gateway.
BaseResource_init_detached(a, self) == a

\* BaseResource.__init__(self, api), on the attributes a of self.api:
\* setattr(self.api, self.API_ACESSOR_NAME, self)
BaseResource_init(a, self) == SetItem(a, self.cls.API_ACESSOR_NAME, self)

\* PipedriveAPI.__getattr__(item) on Gateway g with attributes a: the
\* outcome, the attributes afterwards and the clients constructed.  The
\* registered class is called with the Gateway; a name the registry lacks
\* is a KeyError, turned into an AttributeError.
PipedriveAPI_getattr(registry, a, g, item, id) ==
    IF item \in DOMAIN registry
    THEN LET self == [t |-> "Resource", id |-> id, cls |-> registry[item],
                      api |-> g]
         IN [result |-> Returned(self), attrs |-> BaseResource_init(a, self),
             constructed |-> <<self>>]
    ELSE [result |-> Raised("AttributeError"), attrs |-> a,
          constructed |-> <<>>]

\* An attribute read that asks __getattr__ even for a name that is set.
GetAttributeUncached(registry, a, g, item, id) ==
    PipedriveAPI_getattr(registry, a, g, item, id)

\* The attribute read g.item: the instance's own attributes first, and
\* __getattr__ only for a name they lack.
GetAttribute(registry, a, g, item, id) ==
    IF item \in DOMAIN a
    THEN [result |-> Returned(a[item]), attrs |-> a, constructed |-> <<>>]
    ELSE PipedriveAPI_getattr(registry, a, g, item, id)

\* The attributes a hold a resource client under the name n.
HoldsClient(a, n) == n \in DOMAIN a /\ a[n].t = "Resource"

\* PipedriveAPI.register_resource(resource_class)
register_resource(registry, resource_class) ==
    SetItem(registry, resource_class.API_ACESSOR_NAME, resource_class)

Pending == [t |-> "pending"]

\* The calls of dict_to_model: any document against any schema.
ProjectionCalls ==
    [fn : {"dict_to_model"}, data : RawDocuments, model_class : ModelClasses,
     result : {Pending}]

\* The calls of CollectionResponse(response, model_class): the response is a
\* decoded document or a transport response that decodes to it.
CollectionCalls ==
    [fn : {"CollectionResponse"},
     data : ResponseDocuments \cup
            {Response(1, TRUE, doc) : doc \in ResponseDocuments},
     model_class : ExampleModels, result : {Pending}]

(***************************************************************************)
(* Requests.  The transport (requests.request) answers a call with a       *)
(* response or raises; an exception object may or may not carry the        *)
(* attribute `message` that the Gateway's handler reads (BaseException has *)
(* it in Python 2 only).                                                   *)
(***************************************************************************)
ExampleBody ==
    PyDict([k \in {"data", "success", "additional_data"} |->
        CASE k = "data" -> PyList(<<PyDict([j \in Keys |-> PyInt(1)])>>)
          [] k = "success" -> PyBool(TRUE)
          [] k = "additional_data" ->
                PyDict([j \in {"pagination"} |->
                    PyDict([c \in {"start", "more_items_in_collection"} |->
                        IF c = "start" THEN PyInt(0) ELSE PyBool(TRUE)])])])
NullAdditionalBody == PyDict([k \in {"additional_data"} |-> None])

TransportErrors ==
    {[type |-> "ConnectionError", has_message |-> TRUE],
     [type |-> "Timeout", has_message |-> TRUE],
     [type |-> "ConnectionError", has_message |-> FALSE]}
TransportOutcomes ==
    {[t |-> "Response", ok |-> TRUE, json |-> EmptyDict],
     [t |-> "Response", ok |-> FALSE, json |-> EmptyDict],
     [t |-> "Response", ok |-> TRUE, json |-> ExampleBody],
     [t |-> "Response", ok |-> TRUE, json |-> NullAdditionalBody]} \cup
    {Raised(exc) : exc \in TransportErrors}

\* The MockResponse of a Gateway without token: a requests.Response that no
\* transport filled (no error status), whose json() is {}.
MockResponse == Response(0, TRUE, EmptyDict)

\* str.format on a path template: each {placeholder} replaced by its value.
RECURSIVE Format(_, _)
Format(template, kw) ==
    IF template = <<>> THEN ""
    ELSE (IF Head(template) \in DOMAIN kw THEN kw[Head(template)]
          ELSE Head(template)) \o Format(Tail(template), kw)

\* A Gateway that takes only None, not '', for "no token".
HasNoTokenNoneOnly(api_token) == api_token = None

\* self.api_token in (None, '')
HasNoToken(api_token) == api_token \in {None, PyStr("")}

\* A Gateway that keeps an api_token entry the caller supplied.
InjectTokenKeepCallers(params, api_token) ==
    LET params1 == Or(params, EmptyDict)
    IN IF "api_token" \in DOMAIN params1.d THEN params1
       ELSE PyDict(SetItem(params1.d, "api_token", api_token))

\* params = params or {}; params['api_token'] = self.api_token
InjectToken(params, api_token) ==
    LET params1 == Or(params, EmptyDict)
    IN PyDict(SetItem(params1.d, "api_token", api_token))

\* PipedriveAPI.send_request(method, path, params, data) on a Gateway with
\* attributes a, the transport answering env: what it does (events) and how
\* it ends.  The handler of a transport failure evaluates err.message before
\* it logs: on an exception without that attribute it ends in an
\* AttributeError, nothing logged.
PipedriveAPI_send_request(a, method, path, params, data, env, id) ==
    IF HasNoToken(a["api_token"])
    THEN [events |-> <<>>, outcome |-> Returned(MockResponse)]
    ELSE LET request ==
                 [e |-> "request", method |-> method, url |-> BASE_URL \o path,
                  params |-> InjectToken(params, a["api_token"]),
                  data |-> data]
         IN IF env.t = "Response"
            THEN [events |-> <<request>>,
                  outcome |-> Returned(Response(id, env.ok, env.json))]
            ELSE IF env.exc.has_message
            THEN [events |-> <<request, [e |-> "log", exc |-> env.exc]>>,
                  outcome |-> Raised(env.exc)]
            ELSE [events |-> <<request>>,
                  outcome |-> Raised([type |-> "AttributeError",
                                      has_message |-> FALSE])]

\* The hook BaseResource.send_request invokes on a response.
HookSwapped(response) ==
    IF response.ok THEN "process_error" ELSE "process_success"

Hook(response) ==
    IF response.ok THEN "process_success" ELSE "process_error"

\* BaseResource.send_request(method, path, params, data) of a client of the
\* Gateway with attributes a.  `sent` are the arguments handed to the
\* Gateway, `gateway` is how the Gateway's call ended, `response` how this
\* method ends and `outcome` how the operation that called it ends.  The
\* default hooks do nothing; each invocation is recorded as an event.
BaseResource_send_request(a, method, path, params, data, env, id) ==
    LET r == PipedriveAPI_send_request(a, method, path, params, data, env, id)
        sent == [method |-> method, path |-> path, params |-> params,
                 data |-> data]
    IN IF r.outcome.t = "raise"
       THEN [sent |-> sent, events |-> r.events, gateway |-> r.outcome,
             response |-> r.outcome, outcome |-> r.outcome]
       ELSE LET response == r.outcome.value
            IN [sent |-> sent,
                events |-> Append(r.events, [e |-> Hook(response),
                                             response |-> response]),
                gateway |-> r.outcome,
                response |-> Returned(response),
                outcome |-> Returned(response)]

\* The operations of a client `self`; x holds the Gateway's attributes, the
\* transport's answer and the identity of the next response.
_create(self, params, data, x) ==
    BaseResource_send_request(x.a, "POST", self.cls.LIST_REQ_PATH, params,
                              data, x.env, x.id)

_list(self, params, data, x) ==
    BaseResource_send_request(x.a, "GET", self.cls.LIST_REQ_PATH, params,
                              data, x.env, x.id)

_delete(self, resource_ids, params, data, x) ==
    LET url == Format(self.cls.DETAIL_REQ_PATH,
                      [k \in {"{id}"} |-> resource_ids])
    IN BaseResource_send_request(x.a, "DELETE", url, params, data, x.env, x.id)

_update(self, resource_ids, params, data, x) ==
    LET url == Format(self.cls.DETAIL_REQ_PATH,
                      [k \in {"{id}"} |-> resource_ids])
    IN BaseResource_send_request(x.a, "PUT", url, params, data, x.env, x.id)

_detail(self, resource_ids, params, data, x) ==
    LET url == Format(self.cls.DETAIL_REQ_PATH,
                      [k \in {"{id}"} |-> resource_ids])
    IN BaseResource_send_request(x.a, "GET", url, params, data, x.env, x.id)

_find(self, term, params, data, x) ==
    LET params1 == PyDict(SetItem(Or(params, EmptyDict).d, "term", term))
    IN BaseResource_send_request(x.a, "GET", self.cls.FIND_REQ_PATH, params1,
                                 data, x.env, x.id)

\* The result of _related_entities is the collection built from the
\* response, or the exception that sending or building raised.
_related_entities(self, resource_ids, entity_name, entity_class, params, data, x) ==
    LET entity_path ==
            Format(self.cls.RELATED_ENTITIES_PATH,
                   [k \in {"{id}", "{entity}"} |->
                       IF k = "{id}" THEN resource_ids ELSE entity_name])
        r == BaseResource_send_request(x.a, "GET", entity_path, params, data,
                                       x.env, x.id)
    IN [r EXCEPT !.outcome =
            IF r.outcome.t = "raise" THEN r.outcome
            ELSE LET c == CollectionResponse(r.outcome.value, entity_class)
                 IN IF c.t = "raise" THEN c ELSE Returned(c)]

\* Gateways just constructed, each with any token; nothing registered.
Init ==
    /\ attrs \in {[g \in Gateways |-> PipedriveAPI_init(tok[g])] :
                     tok \in [Gateways -> Tokens]}
    /\ resource_registry = NoRegistry
    /\ instances = <<>>
    /\ access = NoAccess
    /\ transport_calls = 0
    /\ op = NoOp
    /\ call = NoCall

\* PipedriveAPI.register_resource(resource_class)
Register ==
    \E resource_class \in ResourceClasses :
        /\ resource_registry' =
              register_resource(resource_registry, resource_class)
        /\ access' = NoAccess
        /\ UNCHANGED <<attrs, instances, transport_calls, op, call>>

\* The caller reads g.item.
Access ==
    \E g \in Gateways, item \in AttributeNames :
        LET r == GetAttribute(resource_registry, attrs[g], g, item,
                              Len(instances) + 1)
        IN /\ Len(instances) + Len(r.constructed) <= MaxInstances
           /\ attrs' = [attrs EXCEPT ![g] = r.attrs]
           /\ instances' = instances \o r.constructed
           /\ access' = [t |-> "access", g |-> g, item |-> item,
                         result |-> r.result,
                         constructed |-> Len(r.constructed)]
           /\ UNCHANGED <<resource_registry, transport_calls, op, call>>

Next == Register \/ Access

Spec == Init /\ [][Next]_vars

(***************************************************************************)
(* Resource operations, on a Gateway that holds a client.                  *)
(***************************************************************************)
ResourceIds == {"1", "2"}
Terms == {PyStr("acme")}
EntityNames == {"activities"}
CallerParams ==
    {None, EmptyDict, PyDict([k \in {"api_token"} |-> PyStr("callers")])}
CallerData == {None, PyDict([k \in {"name"} |-> PyInt(1)])}

\* Gateway g1 with any token, one resource type registered and its client
\* resolved once (by g1.deals); Gateway g2 untouched.
InitRequest ==
    \E tok \in Tokens, cls \in {Deals, ArchivedDeals} :
        LET r == GetAttribute(register_resource(NoRegistry, cls),
                              PipedriveAPI_init(tok), "g1",
                              cls.API_ACESSOR_NAME, 1)
        IN /\ attrs = [g \in Gateways |->
                          IF g = "g1" THEN r.attrs ELSE PipedriveAPI_init(None)]
           /\ resource_registry = register_resource(NoRegistry, cls)
           /\ instances = r.constructed
           /\ access = [t |-> "access", g |-> "g1",
                        item |-> cls.API_ACESSOR_NAME, result |-> r.result,
                        constructed |-> Len(r.constructed)]
           /\ transport_calls = 0
           /\ op = NoOp
           /\ call = NoCall

Requests(events) == SelectSeq(events, LAMBDA ev : ev.e = "request")

\* The step of an operation that ended as r: the transport was called once
\* per request event.  The transport's answer is part of the record only
\* when the transport was asked.
Perform(name, self, env, result) ==
    \E r \in {result} :
        LET n == Len(Requests(r.events))
        IN /\ transport_calls + n <= MaxCalls
           /\ transport_calls' = transport_calls + n
           /\ op' = [t |-> "op", name |-> name, self |-> self,
                     token |-> attrs[self.api]["api_token"],
                     env |-> IF n = 0 THEN NoOp ELSE env,
                     sent |-> r.sent, events |-> r.events,
                     gateway |-> r.gateway,
                     response |-> r.response,
                     outcome |-> r.outcome]
           /\ UNCHANGED <<attrs, resource_registry, instances, access, call>>

Clients ==
    UNION {{attrs[g][n] : n \in {m \in AttributeNames :
                                    HoldsClient(attrs[g], m)}} :
              g \in Gateways}

Context(self, env) ==
    [a |-> attrs[self.api], env |-> env, id |-> transport_calls + 1]

Create ==
    \E self \in Clients, params \in CallerParams, data \in CallerData,
       env \in TransportOutcomes :
        Perform("create", self, env,
                _create(self, params, data, Context(self, env)))

List ==
    \E self \in Clients, params \in CallerParams, data \in CallerData,
       env \in TransportOutcomes :
        Perform("list", self, env,
                _list(self, params, data, Context(self, env)))

Delete ==
    \E self \in Clients, resource_ids \in ResourceIds,
       params \in CallerParams, data \in CallerData,
       env \in TransportOutcomes :
        Perform("delete", self, env,
                _delete(self, resource_ids, params, data, Context(self, env)))

Update ==
    \E self \in Clients, resource_ids \in ResourceIds,
       params \in CallerParams, data \in CallerData,
       env \in TransportOutcomes :
        Perform("update", self, env,
                _update(self, resource_ids, params, data, Context(self, env)))

Detail ==
    \E self \in Clients, resource_ids \in ResourceIds,
       params \in CallerParams, data \in CallerData,
       env \in TransportOutcomes :
        Perform("detail", self, env,
                _detail(self, resource_ids, params, data, Context(self, env)))

Find ==
    \E self \in Clients, term \in Terms, params \in CallerParams,
       data \in CallerData, env \in TransportOutcomes :
        Perform("find", self, env,
                _find(self, term, params, data, Context(self, env)))

RelatedEntities ==
    \E self \in Clients, resource_ids \in ResourceIds,
       entity_name \in EntityNames, entity_class \in {DealModel},
       params \in CallerParams, data \in CallerData,
       env \in TransportOutcomes :
        Perform("related_entities", self, env,
                _related_entities(self, resource_ids, entity_name,
                                  entity_class, params, data,
                                  Context(self, env)))

NextRequest ==
    \/ Create
    \/ List
    \/ Delete
    \/ Update
    \/ Detail
    \/ Find
    \/ RelatedEntities

SpecRequest == InitRequest /\ [][NextRequest]_vars

InitMapping ==
    /\ call \in ProjectionCalls \cup CollectionCalls
    /\ attrs = [g \in Gateways |-> PipedriveAPI_init(None)]
    /\ resource_registry = NoRegistry
    /\ instances = <<>>
    /\ access = NoAccess
    /\ transport_calls = 0
    /\ op = NoOp

\* dict_to_model(data, model_class)
Project ==
    /\ call.fn = "dict_to_model"
    /\ call.result = Pending
    /\ call' = [call EXCEPT
                  !.result = dict_to_model(call.data, call.model_class)]
    /\ UNCHANGED <<attrs, resource_registry, instances, access,
                   transport_calls, op>>

\* CollectionResponse(response, model_class)
BuildCollection ==
    /\ call.fn = "CollectionResponse"
    /\ call.result = Pending
    /\ call' = [call EXCEPT
                  !.result = CollectionResponse(call.data, call.model_class)]
    /\ UNCHANGED <<attrs, resource_registry, instances, access,
                   transport_calls, op>>

NextMapping == Project \/ BuildCollection

SpecMapping == InitMapping /\ [][NextMapping]_vars

(***************************************************************************)
(* Record projection: claims C1 and C3.                                    *)
(***************************************************************************)
Projected == call.fn = "dict_to_model" /\ call.result # Pending

\* Every field name of the schema together with every declared serialized
\* name.
known_keys(S) ==
    DOMAIN S.fields \cup
    {S.fields[f].serialized_name.s :
        f \in {g \in DOMAIN S.fields : S.fields[g].serialized_name # None}}

\* Per field, its serialized name when it declares a non-empty one and its
\* field name otherwise.
wire_keys(S) ==
    {IF S.fields[f].serialized_name \in {None, PyStr("")}
        THEN f ELSE S.fields[f].serialized_name.s : f \in DOMAIN S.fields}

\* C1 as stated: the record of a non-null document D is built from exactly
\* keys(D) \cap known_keys(S), known_keys(S) being every field name of S
\* together with every declared serialized name of S.
C1_KnownKeysProjection ==
    (Projected /\ call.data # None) =>
        /\ call.result.t = "Model"
        /\ DOMAIN call.result.raw_data =
              DOMAIN call.data.d \cap known_keys(call.model_class)

\* C1 as amended: the record of a non-null document D is built from exactly
\* keys(D) \cap wire_keys(S), each kept key with D's value, where wire_keys(S)
\* holds per field its non-empty declared serialized name, or else its field
\* name; no other key of D reaches the record.
C1_WireKeysProjection ==
    (Projected /\ call.data # None) =>
        /\ call.result.t = "Model"
        /\ call.result.cls = call.model_class
        /\ DOMAIN call.result.raw_data =
              DOMAIN call.data.d \cap wire_keys(call.model_class)
        /\ \A k \in DOMAIN call.result.raw_data :
              call.result.raw_data[k] = call.data.d[k]

\* A document carrying a field's name, its serialized name and an unknown key
\* was projected: only the serialized name was kept.
C1_Witness ==
    /\ Projected
    /\ call.data # None
    /\ DOMAIN call.data.d = {"id", "name", "secret"}
    /\ DOMAIN call.model_class.fields = {"id"}
    /\ call.model_class.fields["id"].serialized_name = PyStr("name")
    /\ DOMAIN call.result.raw_data = {"name"}

\* C3 as stated: the projection of a null document and of an empty mapping
\* is "no record" (None).
C3_NullOrEmptyGivesNone ==
    (Projected /\ call.data \in {None, EmptyDict}) => call.result = None

\* C3 as amended: the projection returns None exactly when the document is
\* null; of an empty mapping it returns a record built from no keys.
C3_OnlyNullGivesNone ==
    Projected =>
        /\ call.result = None <=> call.data = None
        /\ call.data = EmptyDict =>
              call.result = Model(call.model_class, EmptyDict.d)

\* A null document was projected onto a schema with fields, giving None.
C3_Witness ==
    /\ Projected
    /\ call.data = None
    /\ call.model_class.fields # EmptyDict.d
    /\ call.result = None

(***************************************************************************)
(* Paginated collection: claims C2 and C9.                                 *)
(***************************************************************************)
Collected == call.fn = "CollectionResponse" /\ call.result # Pending

\* The decoded document of the call.
SourceDocument ==
    IF call.data.t = "Response" THEN call.data.json.d ELSE call.data.d

NullOrAbsent(key) ==
    key \notin DOMAIN SourceDocument \/ SourceDocument[key] = None

\* C2 as stated: whichever of data, success, additional_data and
\* additional_data.pagination are absent or null, construction completes
\* without raising, and the affected fields take their defaults.
C2_ConstructionNeverFails ==
    Collected =>
        /\ call.result.t = "CollectionResponse"
        /\ NullOrAbsent("data") => call.result.items = <<>>
        /\ NullOrAbsent("success") => call.result.success = PyBool(FALSE)

HasPaginationBlock ==
    /\ "additional_data" \in DOMAIN SourceDocument
    /\ SourceDocument["additional_data"].t = "dict"
    /\ "pagination" \in DOMAIN SourceDocument["additional_data"].d
    /\ SourceDocument["additional_data"].d["pagination"].t = "dict"

PaginationBlock == SourceDocument["additional_data"].d["pagination"].d

BlockValue(key, default) ==
    IF key \in DOMAIN PaginationBlock THEN PaginationBlock[key] ELSE default

\* The document has no additional_data, or one without a pagination key.
NoPaginationBlock ==
    \/ "additional_data" \notin DOMAIN SourceDocument
    \/ /\ SourceDocument["additional_data"].t = "dict"
       /\ "pagination" \notin DOMAIN SourceDocument["additional_data"].d

\* C9: a collection built from a document with a pagination block holds the
\* block's start, limit, next_start and more_items_in_collection, with 0,
\* 100, 0 and false for the keys missing from the block; one built from a
\* document without the block holds no cursor value at all.
C9_CursorOnlyFromBlock ==
    Collected =>
        /\ HasPaginationBlock =>
              /\ call.result.t = "CollectionResponse"
              /\ call.result.start = BlockValue("start", PyInt(0))
              /\ call.result.limit = BlockValue("limit", PyInt(100))
              /\ call.result.next_start = BlockValue("next_start", PyInt(0))
              /\ call.result.more_items_in_collection =
                    BlockValue("more_items_in_collection", PyBool(FALSE))
        /\ NoPaginationBlock =>
              /\ call.result.t = "CollectionResponse"
              /\ call.result.start = None
              /\ call.result.limit = None
              /\ call.result.next_start = None
              /\ call.result.more_items_in_collection = None

\* A collection was built from a block that gives start and nothing else.
C9_Witness ==
    /\ Collected
    /\ call.result.t = "CollectionResponse"
    /\ HasPaginationBlock
    /\ DOMAIN PaginationBlock = {"start"}
    /\ call.result.start = PyInt(MaxVal)
    /\ call.result.limit = PyInt(100)
    /\ call.result.more_items_in_collection = PyBool(FALSE)

(***************************************************************************)
(* Resource resolution: claims C4 and C10.                                 *)
(***************************************************************************)
\* The step is an attribute read (a repeated read that changes nothing
\* stutters).
AccessStep == access' # access /\ access'.t = "access"

Range(f) == {f[x] : x \in DOMAIN f}

\* The read returned a resource client made by this very step, and the
\* Gateway's attribute of that name now holds it.
ReturnsNewClient(g, item) ==
    /\ access'.result.t = "return"
    /\ access'.result.value.t = "Resource"
    /\ access'.result.value.cls = resource_registry[item]
    /\ access'.result.value.api = g
    /\ access'.result.value \notin Range(instances)
    /\ instances' = Append(instances, access'.result.value)
    /\ item \in DOMAIN attrs'[g]
    /\ attrs'[g][item] = access'.result.value

\* C4 as stated: a read of a name neither set on the Gateway nor registered
\* fails with AttributeError; a read of a registered name returns a newly
\* constructed client, which the Gateway's attribute of that name then holds.
C4_RegisteredAccessConstructs ==
    [][AccessStep =>
        LET g == access'.g
            item == access'.item
        IN /\ (item \notin DOMAIN attrs[g]
                  /\ item \notin DOMAIN resource_registry) =>
                 access'.result = Raised("AttributeError")
           /\ item \in DOMAIN resource_registry => ReturnsNewClient(g, item)
      ]_vars

\* C4 as amended: a read of a name neither set on the Gateway nor registered
\* fails with AttributeError and changes nothing; a read of a registered
\* name not yet set on the Gateway returns a newly constructed client, which
\* the Gateway's attribute of that name then holds; a read of a name already
\* set on the Gateway returns the value it holds and constructs nothing.
C4_UnsetRegisteredAccessConstructs ==
    [][AccessStep =>
        LET g == access'.g
            item == access'.item
        IN /\ (item \notin DOMAIN attrs[g]
                  /\ item \notin DOMAIN resource_registry) =>
                 /\ access'.result = Raised("AttributeError")
                 /\ UNCHANGED <<attrs, instances>>
           /\ (item \notin DOMAIN attrs[g]
                  /\ item \in DOMAIN resource_registry) =>
                 ReturnsNewClient(g, item)
           /\ item \in DOMAIN attrs[g] =>
                 /\ access'.result = Returned(attrs[g][item])
                 /\ UNCHANGED <<attrs, instances>>
      ]_vars

\* A read has just constructed a client that its Gateway now holds, while a
\* name nobody registered is still unset there.
C4_Witness ==
    /\ access.t = "access"
    /\ access.constructed = 1
    /\ access.result.t = "return"
    /\ attrs[access.g][access.item] = access.result.value
    /\ instances[Len(instances)] = access.result.value
    /\ "leads" \notin DOMAIN attrs[access.g]

\* C10: once a read of n on g has returned a client, g keeps that client
\* under n: whatever is registered or read afterwards, on g or elsewhere,
\* every later read of n on g returns it and constructs nothing; attribute
\* reads construct at most one client per Gateway and accessor name, and a
\* read never returns a client attached to another Gateway.
C10_ResolutionIsCached ==
    [][/\ \A g \in Gateways, n \in AttributeNames :
            HoldsClient(attrs[g], n) =>
               /\ HoldsClient(attrs'[g], n)
               /\ attrs'[g][n] = attrs[g][n]
               /\ (AccessStep /\ access'.g = g /\ access'.item = n) =>
                     /\ access'.result = Returned(attrs[g][n])
                     /\ access'.constructed = 0
                     /\ instances' = instances
       /\ \A i, j \in DOMAIN instances' :
            (/\ instances'[i].api = instances'[j].api
             /\ instances'[i].cls.API_ACESSOR_NAME =
                   instances'[j].cls.API_ACESSOR_NAME) => i = j
       /\ (AccessStep /\ access'.result.t = "return"
              /\ access'.result.value.t = "Resource") =>
            access'.result.value.api = access'.g
      ]_vars

\* A later read returned the cached client although the registry now names
\* another resource type, and the other Gateway holds a client of its own.
C10_Witness ==
    /\ access.t = "access"
    /\ access.constructed = 0
    /\ access.result.t = "return"
    /\ access.result.value.t = "Resource"
    /\ resource_registry[access.item] # access.result.value.cls
    /\ \E h \in Gateways \ {access.g} :
          /\ HoldsClient(attrs[h], access.item)
          /\ attrs[h][access.item] # access.result.value

(***************************************************************************)
(* Requests: claims C5 to C8.                                              *)
(***************************************************************************)
Hooks(events) ==
    SelectSeq(events,
              LAMBDA ev : ev.e \in {"process_success", "process_error"})

TokenSet(token) == token # None /\ token # PyStr("")

C6_NoTokenNoTransport ==
    \A self \in Clients :
        ~TokenSet(attrs[self.api]["api_token"]) =>
            /\ transport_calls = 0
            /\ op.t = "op" =>
                  /\ Requests(op.events) = <<>>
                  /\ op.gateway.t = "return"
                  /\ op.gateway.value.t = "Response"
                  /\ op.gateway.value.json = EmptyDict

\* An operation ran on a Gateway whose token is the empty string.
C6_Witness ==
    /\ op.t = "op"
    /\ op.token = PyStr("")
    /\ op.name = "find"
    /\ op.gateway.t = "return"
    /\ op.gateway.value.json = EmptyDict
    /\ transport_calls = 0

\* C7: on a Gateway whose token is set, every send_request makes exactly one
\* transport call; its query parameters hold the Gateway's token under
\* api_token, whatever the caller supplied, its URL is BASE_URL followed by
\* the path given, and its method and body are those given.
C7_OneAuthenticatedCall ==
    (op.t = "op" /\ TokenSet(op.token)) =>
        /\ Len(Requests(op.events)) = 1
        /\ LET request == Requests(op.events)[1]
           IN /\ request = op.events[1]
              /\ "api_token" \in DOMAIN request.params.d
              /\ request.params.d["api_token"] = op.token
              /\ request.url = "https://api.pipedrive.com/v1" \o op.sent.path
              /\ request.method = op.sent.method
              /\ request.data = op.sent.data

\* A delete was sent although the caller's params held an api_token entry of
\* their own.
C7_Witness ==
    /\ op.t = "op"
    /\ op.name = "delete"
    /\ Len(Requests(op.events)) = 1
    /\ op.sent.params = PyDict([k \in {"api_token"} |-> PyStr("callers")])
    /\ op.sent.path = "/deals/2/archived"
    /\ Requests(op.events)[1].url =
          "https://api.pipedrive.com/v1/deals/2/archived"
    /\ Requests(op.events)[1].params.d["api_token"] = PyStr("tok")
    /\ transport_calls = MaxCalls

\* C8 as stated: when the transport raises during an operation, the failure
\* is logged and then reaches the caller unchanged; the transport is not
\* called again and no hook is invoked.
C8_TransportFailureReraised ==
    (op.t = "op" /\ op.env.t = "raise") =>
        /\ Len(Requests(op.events)) = 1
        /\ op.events = <<Requests(op.events)[1],
                         [e |-> "log", exc |-> op.env.exc]>>
        /\ Hooks(op.events) = <<>>
        /\ op.outcome = Raised(op.env.exc)
====
